---- MODULE Spec2Model ----
(***************************************************************************)
(* Model of the StripeEventsToSns construct (src/src/index.ts).            *)
(*                                                                         *)
(* The construct has one operation, its constructor.  The constructor is   *)
(* synchronous: its statements run in program order and nothing else runs  *)
(* in between.  The model keeps the position inside the constructor in pc  *)
(* so that the state at the moment an exception leaves the constructor is  *)
(* a state of the model; while pc # "idle" no other action is enabled.     *)
(*                                                                         *)
(* State written by the constructor lives in objects owned by the caller:  *)
(* the parent scope (its children), the topic (its resource policy) and    *)
(* the construct tree (the rule and its targets).                          *)
(***************************************************************************)
EXTENDS Integers, Sequences, FiniteSets, TLC

(* ---------------------------------------------------------------- bounds *)

\* Longest eventTypes array the caller passes.
MaxTypes == 2
\* Number of constructor calls in one run.
MaxInst == 2
\* Number of events the event bus receives after composition.
MaxDeliveries == 1

(* ------------------------------------------------------- the input space *)

\* A property the caller left out (undefined as any in the tests).
Undefined == "undefined"

\* Construct ids the caller uses inside the one parent scope.
Ids == {"NotifierA", "NotifierB"}

\* The scope all instances are created in (the test's stack).
ScopeName == "TestStack"

\* The custom event bus the caller passes (the test's TestEventBus).
EventBuses == {"TestEventBus"}

\* The account's default event bus, which the caller never passes.
DefaultBus == "default"

Topics == {"TopicA", "TopicB"}

EventTypeNames == {"payment_intent.succeeded", "customer.created"}

\* eventTypes as the caller passes it: left out, or an array (possibly empty,
\* possibly with repeated entries).
Absent == [present |-> FALSE]

Some(v) == [present |-> TRUE, val |-> v]

SeqsUpTo(S, n) == UNION {[1..k -> S] : k \in 0..n}

EventTypeArgs == {Absent} \cup {Some(s) : s \in SeqsUpTo(EventTypeNames, MaxTypes)}

\* The caller's template functions, by name.
MessageTemplates == {"tplReadme", "tplFields", "tplThrows"}

PropsSpace ==
    [eventBus : EventBuses \cup {Undefined},
     topic : Topics \cup {Undefined},
     eventTypes : EventTypeArgs,
     messageTemplate : MessageTemplates \cup {Undefined}]

(* ------------------------------------------------------------- constants *)

\* index.ts:111
StripeSourcePrefix == <<"aws.partner", "stripe.com">>

\* index.ts:115
RuleDescription == "Generic rule to relay Stripe events to SNS"

\* index.ts:107
RuleId == "StripeEventRule"

\* index.ts:172: the argument the template function is called with.
EventField == "EventField"

\* No constructor call is in progress.
NoCall == [id |-> "none"]

VARIABLES
    children,   \* ids registered in the parent scope
    config,     \* config[id]: the props of instance id, once they passed validation
    status,     \* status[id]: "running", "done" or "failed"
    rules,      \* rules[id]: the rule created by instance id
    policy,     \* policy[t]: the statements added to topic t's resource policy
    calls,      \* calls[id]: argument lists of the invocations of id's messageTemplate
    ret,        \* ret[id]: the value id's messageTemplate returned
    thrown,     \* the errors that left a constructor call, in order
    attempts,   \* number of constructor calls so far
    cur,        \* the id and props of the constructor call in progress, or NoCall
    pc,         \* position inside the constructor call in progress
    delivered   \* number of events delivered to targets so far

vars == <<children, config, status, rules, policy, calls, ret, thrown,
          attempts, cur, pc, delivered>>

Init ==
    /\ children = {}
    /\ config = <<>>
    /\ status = <<>>
    /\ rules = <<>>
    /\ policy = [t \in Topics |-> <<>>]
    /\ calls = <<>>
    /\ ret = <<>>
    /\ thrown = <<>>
    /\ attempts = 0
    /\ cur = NoCall
    /\ pc = "idle"
    /\ delivered = 0

(* --------------------------------------------------------------- helpers *)

RangeOf(seq) == {seq[i] : i \in 1..Len(seq)}

\* A sequence without the later copies of its repeated members.
RECURSIVE Dedup(_)
Dedup(seq) ==
    IF Len(seq) = 0 THEN <<>>
    ELSE LET front == Dedup(SubSeq(seq, 1, Len(seq) - 1)) IN
         IF seq[Len(seq)] \in RangeOf(front) THEN front
         ELSE Append(front, seq[Len(seq)])

(* ------------------------------------------------------------ validation *)

\* String.prototype.join on an array of strings; a string is a sequence of
\* pieces here, so that the lines of the message can be told apart again.
RECURSIVE Join(_, _)
Join(strs, sep) ==
    IF Len(strs) = 0 THEN <<>>
    ELSE IF Len(strs) = 1 THEN strs[1]
    ELSE strs[1] \o sep \o Join(Tail(strs), sep)

ErrEventBus == <<"eventBus", " is required">>

ErrTopic == <<"topic", " is required">>

ErrEventTypes == <<"eventTypes", " must be a non-empty array">>

ErrMessageTemplate == <<"messageTemplate", " is required">>

ValidationHeader == "StripeEventsToSns validation failed:"

\* Variant: the checks stop at the first violation.
ValidationErrorsFirstOnly(p) ==
    IF p.eventBus = Undefined THEN <<ErrEventBus>>
    ELSE IF p.topic = Undefined THEN <<ErrTopic>>
    ELSE IF ~p.eventTypes.present \/ Len(p.eventTypes.val) = 0 THEN <<ErrEventTypes>>
    ELSE IF p.messageTemplate = Undefined THEN <<ErrMessageTemplate>>
    ELSE <<>>

\* The errors array after the four checks.
ValidationErrors(p) ==
    (IF p.eventBus = Undefined THEN <<ErrEventBus>> ELSE <<>>)
    \o (IF p.topic = Undefined THEN <<ErrTopic>> ELSE <<>>)
    \o (IF ~p.eventTypes.present \/ Len(p.eventTypes.val) = 0
        THEN <<ErrEventTypes>> ELSE <<>>)
    \o (IF p.messageTemplate = Undefined THEN <<ErrMessageTemplate>> ELSE <<>>)

\* Variant: the violations are joined on one line.
ValidationMessageOneLine(errors) ==
    <<ValidationHeader, " ">> \o Join(errors, <<", ">>)

\* The message of the Error thrown for a non-empty errors array.
ValidationMessage(errors) ==
    <<ValidationHeader, "\n", "  - ">> \o Join(errors, <<"\n", "  - ">>)

(* ------------------------------------------------------------------ rule *)

\* Variant: repeated event types are dropped from the pattern.
NewRuleDedup(p) ==
    LET et == p.eventTypes.val IN
    [eventBus |-> p.eventBus,
     eventPattern |-> [source |-> <<[prefix |-> StripeSourcePrefix]>>,
                       detailType |-> Dedup(et)],
     description |-> RuleDescription,
     targets |-> <<>>]

\* Variant: the eventBus prop is not passed on, the rule lands on the default bus.
NewRuleDefaultBus(p) ==
    [eventBus |-> DefaultBus,
     eventPattern |-> [source |-> <<[prefix |-> StripeSourcePrefix]>>,
                       detailType |-> p.eventTypes.val],
     description |-> RuleDescription,
     targets |-> <<>>]

\* new events.Rule(this, 'StripeEventRule', {...}): the rule as declared.
\* The first event pattern given to a rule is stored field by field as it is.
NewRule(p) ==
    [eventBus |-> p.eventBus,
     eventPattern |-> [source |-> <<[prefix |-> StripeSourcePrefix]>>,
                       detailType |-> p.eventTypes.val],
     description |-> RuleDescription,
     targets |-> <<>>]

\* rule.ruleArn of the rule created by instance id.
RuleArn(id) == <<"arn", id, RuleId>>

\* props.topic.topicArn
TopicArn(t) == <<"arn", t>>

(* ---------------------------------------------------------------- policy *)

EventsPrincipal == [service |-> "events.amazonaws.com"]

\* Variant: the statement covers every topic.
RuleStatementWildcard(t, id) ==
    [effect |-> "Allow",
     principals |-> <<EventsPrincipal>>,
     actions |-> <<"sns:Publish">>,
     resources |-> <<TopicArn("*")>>,
     conditions |-> {[operator |-> "StringEquals", key |-> "aws:SourceArn",
                      value |-> RuleArn(id)]}]

\* The statement built at index.ts:132-146.
RuleStatement(t, id) ==
    [effect |-> "Allow",
     principals |-> <<EventsPrincipal>>,
     actions |-> <<"sns:Publish">>,
     resources |-> <<TopicArn(t)>>,
     conditions |-> {[operator |-> "StringEquals", key |-> "aws:SourceArn",
                      value |-> RuleArn(id)]}]

\* Variant: the statement replaces the policy document of the topic.
AddToResourcePolicyReplace(pol, t, stmt) == [pol EXCEPT ![t] = <<stmt>>]

\* topic.addToResourcePolicy(statement): the statement joins the topic's
\* policy document.
AddToResourcePolicy(pol, t, stmt) == [pol EXCEPT ![t] = Append(@, stmt)]

(* -------------------------------------------------------------- template *)

Lit(s) == [kind |-> "literal", text |-> s]

\* A JSON path is the sequence of its segments after the root: $.detail-type
\* is <<"detail-type">>.
\* EventField.fromPath(path) as the whole value of a field.
Tok(path) == [kind |-> "token", path |-> path]

\* A template string with one EventField.fromPath(path) embedded after text.
Mix(s, path) == [kind |-> "mixed", text |-> s, path |-> path]

Field(name, leaf) == [name |-> name, leaf |-> leaf]

\* Whether the caller's function throws when it is called.
TemplateThrows(f) == f = "tplThrows"

\* What the caller's function returns when it is called.
TemplateReturn(f) ==
    CASE f = "tplReadme" ->
           <<Field("version", Lit("1.0")),
             Field("description", Mix("**Event Type:** ", <<"detail-type">>)),
             Field("eventId", Tok(<<"id">>))>>
      [] f = "tplFields" ->
           <<Field("message", Tok(<<"detail-type">>)),
             Field("data", Tok(<<"detail">>))>>

\* The error the caller's function throws.
TemplateError(f) == <<"error thrown by ", f>>

(* ---------------------------------------------------------------- target *)

IsToken(leaf) == leaf.kind \in {"token", "mixed"}

\* The key an event field gets in the input transformer: the path without
\* its root, its separators replaced by "-".
KeyOf(path) == Join([i \in 1..Len(path) |-> <<path[i]>>], <<"-">>)

Text(s) == [text |-> s]

Placeholder(key) == [ref |-> key]

\* Variant: an event field is turned into text when the object is
\* serialized, as JSON.stringify would do without token resolution.
SerializeLeafStringified(leaf) ==
    CASE leaf.kind = "literal" -> [quoted |-> TRUE, parts |-> <<Text(leaf.text)>>]
      [] leaf.kind = "mixed" ->
           [quoted |-> TRUE, parts |-> <<Text(leaf.text), Text("[object Object]")>>]
      [] leaf.kind = "token" ->
           [quoted |-> TRUE, parts |-> <<Text("[object Object]")>>]

\* One leaf in the serialized template: a literal is a quoted string, a token
\* inside a string stays inside the quotes as a placeholder, and a token that
\* is the whole value becomes an unquoted placeholder.
SerializeLeaf(leaf) ==
    CASE leaf.kind = "literal" -> [quoted |-> TRUE, parts |-> <<Text(leaf.text)>>]
      [] leaf.kind = "mixed" ->
           [quoted |-> TRUE,
            parts |-> <<Text(leaf.text), Placeholder(KeyOf(leaf.path))>>]
      [] leaf.kind = "token" ->
           [quoted |-> FALSE, parts |-> <<Placeholder(KeyOf(leaf.path))>>]

SerializeFields(obj) ==
    [i \in 1..Len(obj) |-> [name |-> obj[i].name, value |-> SerializeLeaf(obj[i].leaf)]]

\* RuleTargetInput.fromObject(obj) as bound to the rule: a constant input
\* when obj holds no event field, an input transformer otherwise.
Serialize(obj) ==
    LET paths == {obj[i].leaf.path : i \in {j \in 1..Len(obj) : IsToken(obj[j].leaf)}} IN
    IF paths = {}
    THEN [kind |-> "input", template |-> SerializeFields(obj), inputPathsMap |-> {}]
    ELSE [kind |-> "inputTransformer",
          template |-> SerializeFields(obj),
          inputPathsMap |-> {[key |-> KeyOf(q), path |-> q] : q \in paths}]

\* rule.addTarget binds the target first, and binding an SnsTopic target
\* calls topic.grantPublish(events.amazonaws.com): a second statement on the
\* topic's resource policy, without conditions.
TargetGrantStatement(t) ==
    [effect |-> "Allow",
     principals |-> <<EventsPrincipal>>,
     actions |-> <<"sns:Publish">>,
     resources |-> <<TopicArn(t)>>,
     conditions |-> {}]

\* Variant: the target is added without the message option, so the matched
\* event is passed on as it is.
NewTargetNoMessage(rule, t, obj) ==
    [id |-> <<"Target", Len(rule.targets)>>,
     arn |-> TopicArn(t),
     input |-> [kind |-> "matchedEvent", template |-> <<>>, inputPathsMap |-> {}]]

\* Variant: targets are numbered across all the rules of the stack instead of
\* within their own rule.
NewTargetStackCounter(rule, t, obj) ==
    [id |-> <<"Target", Cardinality({i \in DOMAIN rules : rules[i].targets # <<>>})>>,
     arn |-> TopicArn(t),
     input |-> Serialize(obj)]

\* The target pushed onto the rule by rule.addTarget.
NewTarget(rule, t, obj) ==
    [id |-> <<"Target", Len(rule.targets)>>,
     arn |-> TopicArn(t),
     input |-> Serialize(obj)]

(* ---------------------------------------------------------------- output *)

\* The statements of topic t's policy in the synthesized template: equal
\* statements are emitted once.
Rendered(t) == Dedup(policy[t])

(* ----------------------------------------------------------- constructor *)

\* Construct's constructor: the id must be free in the scope.
DuplicateMessage(id) ==
    <<"There is already a Construct with name '", id, "' in ", ScopeName>>

Throw(id, kind, message) ==
    thrown' = Append(thrown,
                     [attempt |-> attempts + (IF pc = "idle" THEN 1 ELSE 0),
                      id |-> id, kind |-> kind, message |-> message])

\* new StripeEventsToSns(scope, id, p) up to and including super(scope, id),
\* for an id that is free in the scope.
New(id, p) ==
    /\ pc = "idle"
    /\ attempts < MaxInst
    /\ id \notin children
    /\ attempts' = attempts + 1
    /\ children' = children \cup {id}
    /\ status' = status @@ (id :> "running")
    /\ calls' = calls @@ (id :> <<>>)
    /\ cur' = [id |-> id, props |-> p]
    /\ pc' = "validate"
    /\ UNCHANGED <<config, rules, policy, ret, thrown, delivered>>

\* new StripeEventsToSns(scope, id, p) for an id the scope already holds:
\* super(scope, id) throws before props is looked at.
NewDuplicate(id) ==
    /\ pc = "idle"
    /\ attempts < MaxInst
    /\ id \in children
    /\ attempts' = attempts + 1
    /\ Throw(id, "duplicate", DuplicateMessage(id))
    /\ UNCHANGED <<children, config, status, rules, policy, calls, ret, cur, pc,
                   delivered>>

\* Variant: the grant is written to the topic before the checks throw.
ValidateLate ==
    /\ pc = "validate"
    /\ LET errors == ValidationErrors(cur.props) IN
       IF Len(errors) > 0
       THEN /\ Throw(cur.id, "validation", ValidationMessage(errors))
            /\ status' = [status EXCEPT ![cur.id] = "failed"]
            /\ policy' = IF cur.props.topic \in Topics
                          THEN AddToResourcePolicy(policy, cur.props.topic,
                                                   RuleStatement(cur.props.topic, cur.id))
                          ELSE policy
            /\ cur' = NoCall
            /\ pc' = "idle"
            /\ UNCHANGED config
       ELSE /\ config' = config @@ (cur.id :> cur.props)
            /\ pc' = "rule"
            /\ UNCHANGED <<thrown, status, cur, policy>>
    /\ UNCHANGED <<children, rules, calls, ret, attempts, delivered>>

\* Variant: the checks call the template function, when there is one, to
\* check what it returns.
ValidateWithTemplateCall ==
    /\ pc = "validate"
    /\ calls' = [calls EXCEPT ![cur.id] =
                    IF cur.props.messageTemplate # Undefined
                    THEN Append(@, <<EventField>>) ELSE @]
    /\ LET errors == ValidationErrors(cur.props) IN
       IF Len(errors) > 0
       THEN /\ Throw(cur.id, "validation", ValidationMessage(errors))
            /\ status' = [status EXCEPT ![cur.id] = "failed"]
            /\ cur' = NoCall
            /\ pc' = "idle"
            /\ UNCHANGED config
       ELSE /\ config' = config @@ (cur.id :> cur.props)
            /\ pc' = "rule"
            /\ UNCHANGED <<thrown, status, cur>>
    /\ UNCHANGED <<children, rules, policy, ret, attempts, delivered>>

\* Variant: the checks run before the construct is registered, so a call
\* that fails them leaves the id free in the scope.
ValidateBeforeRegistering ==
    /\ pc = "validate"
    /\ LET errors == ValidationErrors(cur.props) IN
       IF Len(errors) > 0
       THEN /\ Throw(cur.id, "validation", ValidationMessage(errors))
            /\ status' = [status EXCEPT ![cur.id] = "failed"]
            /\ children' = children \ {cur.id}
            /\ cur' = NoCall
            /\ pc' = "idle"
            /\ UNCHANGED config
       ELSE /\ config' = config @@ (cur.id :> cur.props)
            /\ pc' = "rule"
            /\ UNCHANGED <<thrown, status, cur, children>>
    /\ UNCHANGED <<rules, policy, calls, ret, attempts, delivered>>

\* The four checks and the throw.
Validate ==
    /\ pc = "validate"
    /\ LET errors == ValidationErrors(cur.props) IN
       IF Len(errors) > 0
       THEN /\ Throw(cur.id, "validation", ValidationMessage(errors))
            /\ status' = [status EXCEPT ![cur.id] = "failed"]
            /\ cur' = NoCall
            /\ pc' = "idle"
            /\ UNCHANGED config
       ELSE /\ config' = config @@ (cur.id :> cur.props)
            /\ pc' = "rule"
            /\ UNCHANGED <<thrown, status, cur>>
    /\ UNCHANGED <<children, rules, policy, calls, ret, attempts, delivered>>

\* Variant: the template function is evaluated while the rule is created,
\* before the policy statement is added.
CreateRuleWithTemplate ==
    /\ pc = "rule"
    /\ rules' = rules @@ (cur.id :> NewRule(cur.props))
    /\ calls' = [calls EXCEPT ![cur.id] = Append(@, <<EventField>>)]
    /\ pc' = "policy"
    /\ UNCHANGED <<children, config, status, policy, ret, thrown,
                   attempts, cur, delivered>>

CreateRule ==
    /\ pc = "rule"
    /\ rules' = rules @@ (cur.id :> NewRule(cur.props))
    /\ pc' = "policy"
    /\ UNCHANGED <<children, config, status, policy, calls, ret, thrown,
                   attempts, cur, delivered>>

AddPolicy ==
    /\ pc = "policy"
    /\ policy' = AddToResourcePolicy(policy, cur.props.topic,
                                     RuleStatement(cur.props.topic, cur.id))
    /\ pc' = "template"
    /\ UNCHANGED <<children, config, status, rules, calls, ret, thrown,
                   attempts, cur, delivered>>

\* Variant: the template function is called a second time for the target.
InvokeTemplateTwice ==
    /\ pc = "template"
    /\ calls' = [calls EXCEPT ![cur.id] = Append(Append(@, <<EventField>>), <<EventField>>)]
    /\ IF TemplateThrows(cur.props.messageTemplate)
       THEN /\ Throw(cur.id, "template", TemplateError(cur.props.messageTemplate))
            /\ status' = [status EXCEPT ![cur.id] = "failed"]
            /\ cur' = NoCall
            /\ pc' = "idle"
            /\ UNCHANGED ret
       ELSE /\ ret' = ret @@ (cur.id :> TemplateReturn(cur.props.messageTemplate))
            /\ pc' = "target"
            /\ UNCHANGED <<thrown, status, cur>>
    /\ UNCHANGED <<children, config, rules, policy, attempts, delivered>>

\* Variant: the error of the template function is caught and reported as a
\* validation failure of the construct.
InvokeTemplateWrapped ==
    /\ pc = "template"
    /\ calls' = [calls EXCEPT ![cur.id] = Append(@, <<EventField>>)]
    /\ IF TemplateThrows(cur.props.messageTemplate)
       THEN /\ Throw(cur.id, "validation",
                     ValidationMessage(<<TemplateError(cur.props.messageTemplate)>>))
            /\ status' = [status EXCEPT ![cur.id] = "failed"]
            /\ cur' = NoCall
            /\ pc' = "idle"
            /\ UNCHANGED ret
       ELSE /\ ret' = ret @@ (cur.id :> TemplateReturn(cur.props.messageTemplate))
            /\ pc' = "target"
            /\ UNCHANGED <<thrown, status, cur>>
    /\ UNCHANGED <<children, config, rules, policy, attempts, delivered>>

InvokeTemplate ==
    /\ pc = "template"
    /\ calls' = [calls EXCEPT ![cur.id] = Append(@, <<EventField>>)]
    /\ IF TemplateThrows(cur.props.messageTemplate)
       THEN /\ Throw(cur.id, "template", TemplateError(cur.props.messageTemplate))
            /\ status' = [status EXCEPT ![cur.id] = "failed"]
            /\ cur' = NoCall
            /\ pc' = "idle"
            /\ UNCHANGED ret
       ELSE /\ ret' = ret @@ (cur.id :> TemplateReturn(cur.props.messageTemplate))
            /\ pc' = "target"
            /\ UNCHANGED <<thrown, status, cur>>
    /\ UNCHANGED <<children, config, rules, policy, attempts, delivered>>

AddTarget ==
    /\ pc = "target"
    /\ policy' = AddToResourcePolicy(policy, cur.props.topic,
                                     TargetGrantStatement(cur.props.topic))
    /\ rules' = [rules EXCEPT ![cur.id].targets =
                    Append(@, NewTarget(rules[cur.id], cur.props.topic, ret[cur.id]))]
    /\ status' = [status EXCEPT ![cur.id] = "done"]
    /\ cur' = NoCall
    /\ pc' = "idle"
    /\ UNCHANGED <<children, config, calls, ret, thrown, attempts, delivered>>

(* -------------------------------------------------------------- delivery *)

IsPrefix(pre, str) == Len(pre) <= Len(str) /\ SubSeq(str, 1, Len(pre)) = pre

Events ==
    [bus : EventBuses \cup {DefaultBus},
     source : {StripeSourcePrefix \o <<"ed_test">>, <<"aws.partner", "example.com">>},
     detailType : EventTypeNames]

\* Whether the declared rule matches the event.
Matches(rule, ev) ==
    /\ rule.eventBus = ev.bus
    /\ \E m \in RangeOf(rule.eventPattern.source) : IsPrefix(m.prefix, ev.source)
    /\ ev.detailType \in RangeOf(rule.eventPattern.detailType)

\* The stack is synthesized and deployed; no construct is created after that.
Deploy ==
    /\ pc = "idle"
    /\ pc' = "deployed"
    /\ UNCHANGED <<children, config, status, rules, policy, calls, ret, thrown,
                   attempts, cur, delivered>>

\* An event arrives on a bus of the deployed stack; the event bus forwards it
\* to the targets of the matching rules.
Deliver(ev) ==
    /\ pc = "deployed"
    /\ delivered < MaxDeliveries
    /\ \E id \in DOMAIN rules : Matches(rules[id], ev) /\ Len(rules[id].targets) > 0
    /\ delivered' = delivered + 1
    /\ UNCHANGED <<children, config, status, rules, policy, calls, ret, thrown,
                   attempts, cur, pc>>

Next ==
    \/ \E id \in Ids, p \in PropsSpace : New(id, p)
    \/ \E id \in Ids : NewDuplicate(id)
    \/ Validate
    \/ CreateRule
    \/ AddPolicy
    \/ InvokeTemplate
    \/ AddTarget
    \/ Deploy
    \/ \E ev \in Events : Deliver(ev)

Spec == Init /\ [][Next]_vars

(* ================================================================ claims *)

\* The four requirements on the props, stated on their own.
Requirements == <<"eventBus", "topic", "eventTypes", "messageTemplate">>

Satisfied(r, p) ==
    CASE r = "eventBus" -> p.eventBus \in EventBuses
      [] r = "topic" -> p.topic \in Topics
      [] r = "eventTypes" -> p.eventTypes.present /\ p.eventTypes.val # <<>>
      [] r = "messageTemplate" -> p.messageTemplate \in MessageTemplates

Violated(p) == {r \in RangeOf(Requirements) : ~Satisfied(r, p)}

\* The lines of a message: its pieces between newlines.
RECURSIVE SplitLines(_)
SplitLines(msg) ==
    IF \A i \in 1..Len(msg) : msg[i] # "\n" THEN <<msg>>
    ELSE LET i == CHOOSE k \in 1..Len(msg) :
                    msg[k] = "\n" /\ \A j \in 1..(k - 1) : msg[j] # "\n"
         IN <<SubSeq(msg, 1, i - 1)>> \o SplitLines(SubSeq(msg, i + 1, Len(msg)))

\* The lines of an error message after its first one.
ViolationLines(msg) == Tail(SplitLines(msg))

\* The constructor call in progress is about to fail validation.
FailingValidation == pc = "validate" /\ Violated(cur.props) # {}

LastThrown == thrown[Len(thrown)]

\* C1: whenever one or more of the four requirements is violated, the
\* constructor throws, and the error carries as many violation lines as
\* there are violated requirements (never only the first).
C1_AllViolationsReported ==
    [][FailingValidation =>
         /\ Len(thrown') = Len(thrown) + 1
         /\ LastThrown'.kind = "validation"
         /\ LastThrown'.id = cur.id
         /\ Len(ViolationLines(LastThrown'.message)) = Cardinality(Violated(cur.props))
         /\ status'[cur.id] = "failed"]_vars

\* C1 witness: a validation error that carries all four violations.
C1_Witness ==
    \E i \in 1..Len(thrown) :
        thrown[i].kind = "validation" /\ Len(ViolationLines(thrown[i].message)) = 4

\* The instance registered as id failed validation.
FailedValidation(id) ==
    \E i \in 1..Len(thrown) : thrown[i].id = id /\ thrown[i].kind = "validation"

\* The statements of topic t's policy whose condition names the rule of id.
StatementsNaming(t, id) ==
    {i \in 1..Len(policy[t]) :
        \E c \in policy[t][i].conditions : c.value = <<"arn", id, "StripeEventRule">>}

\* C2: when validation fails nothing is produced: no rule is declared, the
\* policy of every topic is left as it was, no target exists, and the error
\* mentions every offending field.
C2_NothingProducedOnValidationFailure ==
    /\ [](\A id \in children :
            FailedValidation(id) =>
                /\ id \notin DOMAIN rules
                /\ id \notin DOMAIN ret
                /\ \A t \in Topics : StatementsNaming(t, id) = {})
    /\ [][(attempts' # attempts \/ FailingValidation) =>
            /\ rules' = rules
            /\ policy' = policy
            /\ FailingValidation =>
                 \A r \in Violated(cur.props) : r \in RangeOf(LastThrown'.message)]_vars

\* C2 witness: a call with eventTypes = [] has failed while an earlier
\* instance had already written to a topic.
C2_Witness ==
    /\ pc = "idle"
    /\ \E i \in 1..Len(thrown) :
         /\ thrown[i].kind = "validation"
         /\ ViolationLines(thrown[i].message) =
              <<(<<"  - ", "eventTypes", " must be a non-empty array">>)>>
    /\ \E t \in Topics : policy[t] # <<>>

\* The call of id's messageTemplate threw.
TemplateThrew(id) ==
    \E i \in 1..Len(thrown) : thrown[i].id = id /\ thrown[i].kind = "template"

\* C3 (as claimed): when messageTemplate throws, neither the rule nor the
\* policy statement of that instance has been added to the output.
C3_NoPartialOutputOnTemplateFailure ==
    \A id \in children :
        TemplateThrew(id) =>
            /\ id \notin DOMAIN rules
            /\ \A t \in Topics : StatementsNaming(t, id) = {}

\* C4 (as claimed): one instantiation adds exactly one statement to the
\* configured topic, and that statement names the instance's own rule.
C4_ExactlyOneStatementPerInstance ==
    pc \in {"idle", "deployed"} =>
        \A t \in Topics :
            /\ Len(Rendered(t)) = Cardinality({id \in DOMAIN rules : config[id].topic = t})
            /\ \A id \in DOMAIN rules :
                 Cardinality(StatementsNaming(t, id)) = IF config[id].topic = t THEN 1 ELSE 0

\* The constructor call of id has gone past the addToResourcePolicy call.
PastPolicy(id) == id \in DOMAIN rules /\ ~(cur.id = id /\ pc = "policy")

\* The constructor call of id has gone past the messageTemplate call.
PastTemplate(id) == PastPolicy(id) /\ ~(cur.id = id /\ pc = "template")

\* C5: every statement produced is an Allow statement with the single action
\* sns:Publish, the single principal events.amazonaws.com and the single
\* resource the topic's ARN, and the statement that names an instance's rule
\* sits in the resource policy of the configured topic and of no other.
C5_StatementShapeAndPlace ==
    /\ \A t \in Topics : \A i \in 1..Len(Rendered(t)) :
         /\ Rendered(t)[i].effect = "Allow"
         /\ Rendered(t)[i].actions = <<"sns:Publish">>
         /\ Rendered(t)[i].principals = <<[service |-> "events.amazonaws.com"]>>
         /\ Rendered(t)[i].resources = <<(<<"arn", t>>)>>
    /\ \A id \in DOMAIN rules : \A t \in Topics :
         StatementsNaming(t, id) # {} <=> (PastPolicy(id) /\ t = config[id].topic)

\* C5 witness: two finished instances have written to two different topics.
C5_Witness ==
    /\ \A id \in Ids : id \in DOMAIN status /\ status[id] = "done"
    /\ \A t \in Topics : Len(Rendered(t)) >= 2

\* C6: the rule's detail-type list is the configured eventTypes array: same
\* length, same element at every position, repeated entries kept.
C6_DetailTypesPassedThrough ==
    \A id \in DOMAIN rules :
        LET dt == rules[id].eventPattern.detailType
            et == config[id].eventTypes.val
        IN /\ Len(dt) = Len(et)
           /\ \A i \in 1..Len(et) : dt[i] = et[i]

\* C6 witness: one rule carries a repeated entry, another the two types in
\* the order opposite to the test's.
C6_Witness ==
    /\ \E id \in DOMAIN rules :
         rules[id].eventPattern.detailType = <<"customer.created", "customer.created">>
    /\ \E id \in DOMAIN rules :
         rules[id].eventPattern.detailType =
             <<"customer.created", "payment_intent.succeeded">>

\* C7: every instance that passed validation has its one rule; the rule's
\* source matcher is the single prefix match on aws.partner/stripe.com (an
\* event from a longer source name matches), the rule is on the configured
\* bus and carries the fixed description.
C7_RuleShape ==
    /\ DOMAIN rules \subseteq DOMAIN config
    /\ \A id \in DOMAIN config : id \in DOMAIN rules <=> ~(cur.id = id /\ pc = "rule")
    /\ \A id \in DOMAIN rules :
         /\ rules[id].eventPattern.source = <<[prefix |-> <<"aws.partner", "stripe.com">>]>>
         /\ rules[id].eventBus = config[id].eventBus
         /\ rules[id].description = "Generic rule to relay Stripe events to SNS"
         /\ \A ev \in Events :
              Matches(rules[id], ev) <=>
                  /\ ev.bus = config[id].eventBus
                  /\ ev.detailType \in RangeOf(config[id].eventTypes.val)
                  /\ Len(ev.source) >= 2
                  /\ ev.source[1] = "aws.partner"
                  /\ ev.source[2] = "stripe.com"

\* C7 witness: two rules on the configured bus, built from configurations
\* that differ in every other field.
C7_Witness ==
    /\ DOMAIN rules = Ids
    /\ \A id \in Ids : rules[id].eventBus = "TestEventBus"
    /\ \A f \in {"topic", "eventTypes", "messageTemplate"} :
         config["NotifierA"][f] # config["NotifierB"][f]

\* C8: a finished instance's rule has exactly one target, whose destination
\* is the configured topic and whose input is the serialized return value of
\* the template function; before that the rule has no target.
C8_OneTarget ==
    \A id \in DOMAIN rules :
        IF status[id] = "done"
        THEN /\ Len(rules[id].targets) = 1
             /\ rules[id].targets[1].arn = <<"arn", config[id].topic>>
             /\ rules[id].targets[1].input =
                    Serialize(TemplateReturn(config[id].messageTemplate))
        ELSE rules[id].targets = <<>>

\* C8 witness: a finished instance whose target carries an input transformer
\* with two input paths.
C8_Witness ==
    \E id \in DOMAIN rules :
        /\ status[id] = "done"
        /\ rules[id].targets[1].input.kind = "inputTransformer"
        /\ Cardinality(rules[id].targets[1].input.inputPathsMap) = 2

\* C9: messageTemplate is called exactly once per valid configuration, with
\* EventField as its only argument, inside the constructor call of its own
\* instance; an event delivery calls no template.
C9_TemplateCalledOnce ==
    /\ [](\A id \in DOMAIN calls :
            calls[id] = IF PastTemplate(id) THEN <<(<<"EventField">>)>> ELSE <<>>)
    /\ [][/\ \A id \in DOMAIN calls :
               calls'[id] # calls[id] => (pc = "template" /\ cur.id = id)
          /\ delivered' # delivered => calls' = calls]_vars

\* C9 witness: an event has been delivered to the target of a finished instance.
C9_Witness ==
    /\ delivered >= 1
    /\ \E id \in DOMAIN calls : status[id] = "done" /\ Len(calls[id]) = 1

\* The line the message carries for a violated requirement.
ExpectedLine(r) ==
    <<"  - ", r,
      IF r = "eventTypes" THEN " must be a non-empty array" ELSE " is required">>

ExpectedLines(p) ==
    LET viol == SelectSeq(Requirements, LAMBDA r : ~Satisfied(r, p))
    IN [i \in 1..Len(viol) |-> ExpectedLine(viol[i])]

\* C10: a validation failure is one error, thrown once per constructor call;
\* its message is the header line followed by one line per violation, in the
\* order eventBus, topic, eventTypes, messageTemplate.
C10_MessageFormat ==
    /\ [](\A i, j \in 1..Len(thrown) : thrown[i].attempt = thrown[j].attempt => i = j)
    /\ [][FailingValidation =>
            /\ Len(thrown') = Len(thrown) + 1
            /\ SplitLines(LastThrown'.message) =
                   <<(<<"StripeEventsToSns validation failed:">>)>>
                   \o ExpectedLines(cur.props)]_vars

\* C10 witness: two constructor calls failed validation, one of them for
\* topic and messageTemplate together.
C10_Witness ==
    /\ Len(thrown) = 2
    /\ thrown[1].kind = "validation"
    /\ thrown[2].kind = "validation"
    /\ SplitLines(thrown[2].message) =
           <<(<<"StripeEventsToSns validation failed:">>),
             (<<"  - ", "topic", " is required">>),
             (<<"  - ", "messageTemplate", " is required">>)>>

(* ------------------------------------------------------------------ C11 *)

\* The template function of the running call throws.
ThrowingTemplate == pc = "template" /\ cur.props.messageTemplate = "tplThrows"

\* C11: a step in which the template function throws ends the constructor call
\* with exactly one error reaching the caller, and that error is the one the
\* function threw: it is not swallowed (the call does not go on to the
\* target), not wrapped or replaced (the message is the function's own, and
\* is not the validation message), and the function is not called again.
C11_TemplateErrorPropagated ==
    [][ThrowingTemplate =>
          /\ Len(thrown') = Len(thrown) + 1
          /\ thrown'[Len(thrown')].id = cur.id
          /\ thrown'[Len(thrown')].attempt = attempts
          /\ thrown'[Len(thrown')].message = <<"error thrown by ", "tplThrows">>
          /\ thrown'[Len(thrown')].message[1] # ValidationHeader
          /\ SubSeq(thrown', 1, Len(thrown)) = thrown
          /\ Len(calls'[cur.id]) = Len(calls[cur.id]) + 1
          /\ Len(calls'[cur.id]) = 1
          /\ pc' = "idle"
          /\ cur' = NoCall
          /\ status'[cur.id] = "failed"
          /\ cur.id \notin DOMAIN ret']_vars

\* A constructor call has ended with the error of its template function.
C11_Witness ==
    /\ pc = "idle"
    /\ \E i \in 1..Len(thrown) :
          /\ thrown[i].kind = "template"
          /\ thrown[i].message = <<"error thrown by ", "tplThrows">>
          /\ status[thrown[i].id] = "failed"
          /\ Len(calls[thrown[i].id]) = 1

(* ------------------------------------------------------------------ C12 *)

\* The statements on id's topic whose condition names id's rule.
GrantsOf(id) ==
    {policy[config[id].topic][i] : i \in StatementsNaming(config[id].topic, id)}

\* A statement without the rule its condition names.
Unscoped(stmt) ==
    [effect |-> stmt.effect,
     principals |-> stmt.principals,
     actions |-> stmt.actions,
     resources |-> stmt.resources,
     conditions |-> {[operator |-> c.operator, key |-> c.key] : c \in stmt.conditions}]

\* Two finished instances composed from the same configuration.
SameConfiguration(a, b) ==
    /\ a # b
    /\ a \in DOMAIN status /\ status[a] = "done"
    /\ b \in DOMAIN status /\ status[b] = "done"
    /\ config[a] = config[b]

\* C12: two instances composed from the same configuration have equal rule
\* descriptions (bus, pattern, description and targets, target ids and input
\* templates included) and one grant each, and the two grants are equal once
\* the rule named by the condition is left out; that rule is the instance's
\* own, so the two outputs differ in the instance's id and nothing else.
C12_SameConfigurationSameOutput ==
    \A a \in Ids : \A b \in Ids :
        SameConfiguration(a, b) =>
            /\ rules[a] = rules[b]
            /\ Cardinality(GrantsOf(a)) = 1
            /\ Cardinality(GrantsOf(b)) = 1
            /\ {Unscoped(s) : s \in GrantsOf(a)} = {Unscoped(s) : s \in GrantsOf(b)}
            /\ \A s \in GrantsOf(a) :
                 {c.value : c \in s.conditions} = {<<"arn", a, "StripeEventRule">>}
            /\ \A s \in GrantsOf(b) :
                 {c.value : c \in s.conditions} = {<<"arn", b, "StripeEventRule">>}
            /\ GrantsOf(a) # GrantsOf(b)

\* C12 witness: two finished instances share one configuration whose template
\* mixes literal and event fields.
C12_Witness ==
    \E a \in Ids : \E b \in Ids :
        /\ SameConfiguration(a, b)
        /\ config[a].messageTemplate = "tplReadme"
        /\ Len(config[a].eventTypes.val) = 2
        /\ Len(rules[b].targets) = 1

(* ------------------------------------------------------------------ C13 *)

IsText(part) == "text" \in DOMAIN part

IsPlaceholder(part) == "ref" \in DOMAIN part

\* The part is a placeholder that the input's path map resolves to path.
ExtractsPath(input, part, path) ==
    /\ IsPlaceholder(part)
    /\ \E e \in input.inputPathsMap : e.key = part.ref /\ e.path = path
    /\ \A e \in input.inputPathsMap : e.key = part.ref => e.path = path

\* The part is the literal text s.
CarriesText(part, s) == IsText(part) /\ part.text = s

\* The placeholders of the whole serialized template, by field and position.
PlaceholdersOf(input) ==
    {<<i, k>> \in (1..Len(input.template)) \X (1..2) :
        /\ k <= Len(input.template[i].value.parts)
        /\ IsPlaceholder(input.template[i].value.parts[k])}

\* The literal texts of the whole serialized template.
TextsOf(input) ==
    {<<i, k>> \in (1..Len(input.template)) \X (1..2) :
        /\ k <= Len(input.template[i].value.parts)
        /\ IsText(input.template[i].value.parts[k])}

\* The input of the target on id's rule.
TargetInput(id) == rules[id].targets[1].input

\* C13: the serialized template of a finished instance has the fields the
\* template function returned, in the same order; a literal leaf is one
\* quoted text, unchanged; a leaf that is an event field is one unquoted
\* placeholder that the path map resolves to the field's path; a field
\* embedded in a string is the string's text followed by such a placeholder.
\* For the object {message: $.detail-type, data: $.detail} the template has
\* exactly two placeholders, for these two paths, and no literal text.
C13_TokensAndLiteralsPreserved ==
    \A id \in DOMAIN status :
        status[id] = "done" =>
            LET obj == ret[id]
                input == TargetInput(id)
                tpl == input.template
            IN /\ Len(tpl) = Len(obj)
               /\ \A i \in 1..Len(obj) :
                    LET leaf == obj[i].leaf
                        v == tpl[i].value
                    IN /\ tpl[i].name = obj[i].name
                       /\ leaf.kind = "literal" =>
                            /\ v.quoted
                            /\ Len(v.parts) = 1
                            /\ CarriesText(v.parts[1], leaf.text)
                       /\ leaf.kind = "token" =>
                            /\ ~v.quoted
                            /\ Len(v.parts) = 1
                            /\ ExtractsPath(input, v.parts[1], leaf.path)
                       /\ leaf.kind = "mixed" =>
                            /\ v.quoted
                            /\ Len(v.parts) = 2
                            /\ CarriesText(v.parts[1], leaf.text)
                            /\ ExtractsPath(input, v.parts[2], leaf.path)
               /\ config[id].messageTemplate = "tplFields" =>
                    /\ Cardinality(PlaceholdersOf(input)) = 2
                    /\ TextsOf(input) = {}
                    /\ input.kind = "inputTransformer"
                    /\ {e.path : e \in input.inputPathsMap} =
                         {<<"detail-type">>, <<"detail">>}
                    /\ tpl[1].name = "message"
                    /\ ExtractsPath(input, tpl[1].value.parts[1], <<"detail-type">>)
                    /\ tpl[2].name = "data"
                    /\ ExtractsPath(input, tpl[2].value.parts[1], <<"detail">>)

\* C13 witness: one finished instance uses the two-field template of the
\* test and another the template with a literal, an embedded field and a
\* field.
C13_Witness ==
    /\ \E id \in DOMAIN status :
         /\ status[id] = "done"
         /\ config[id].messageTemplate = "tplFields"
         /\ Cardinality(PlaceholdersOf(TargetInput(id))) = 2
    /\ \E id \in DOMAIN status :
         /\ status[id] = "done"
         /\ config[id].messageTemplate = "tplReadme"
         /\ Cardinality(TextsOf(TargetInput(id))) = 2

(* ------------------------------------------------------------------ C14 *)

\* The positions in the statement list stmts of the statements whose
\* condition names the rule of id.
PositionsNaming(stmts, id) ==
    {i \in 1..Len(stmts) :
        \E c \in stmts[i].conditions : c.value = <<"arn", id, "StripeEventRule">>}

\* C14: a step of a constructor call leaves what every other instance has
\* produced as it was: its rule with its targets, the statements naming its
\* rule (same place in the same topic's policy, same content), its stored
\* configuration, the record of its template calls and the object its
\* template returned.  The running call in turn writes nothing that names
\* another instance: a statement it adds carries no condition on another
\* instance's rule.
C14_InstancesIndependent ==
    [][\A id \in children :
          id # cur.id =>
             /\ id \in DOMAIN rules => (id \in DOMAIN rules' /\ rules'[id] = rules[id])
             /\ id \notin DOMAIN rules => (cur'.id # id => id \notin DOMAIN rules')
             /\ id \in DOMAIN config => (id \in DOMAIN config' /\ config'[id] = config[id])
             /\ id \in DOMAIN ret => (id \in DOMAIN ret' /\ ret'[id] = ret[id])
             /\ calls'[id] = calls[id]
             /\ status'[id] = status[id]
             /\ \A t \in Topics :
                  /\ PositionsNaming(policy'[t], id) = PositionsNaming(policy[t], id)
                  /\ \A i \in PositionsNaming(policy[t], id) : policy'[t][i] = policy[t][i]]_vars

\* C14 witness: a second instance has been composed on the topic of a first
\* one, whose rule, target and statement are in place.
C14_Witness ==
    \E a \in Ids : \E b \in Ids :
        /\ a # b
        /\ a \in DOMAIN status /\ status[a] = "done"
        /\ b \in DOMAIN status /\ status[b] = "done"
        /\ config[a].topic = config[b].topic
        /\ config[a].eventTypes # config[b].eventTypes
        /\ PositionsNaming(policy[config[a].topic], a) # {}
        /\ PositionsNaming(policy[config[a].topic], b) # {}
        /\ Len(rules[a].targets) = 1

(* ------------------------------------------------------------------ C15 *)

\* The order of the constructor's steps, as pairs of positions.
StepOrder ==
    {<<"idle", "validate">>, <<"validate", "rule">>, <<"rule", "policy">>,
     <<"policy", "template">>, <<"template", "target">>}

\* Where a constructor call can end: with a thrown error or completed.
StepEnd == {<<"validate", "idle">>, <<"template", "idle">>, <<"target", "idle">>}

\* C15: the steps of a constructor call run in the order validate, create
\* rule, add policy statement, invoke template, attach target.  Nothing is
\* written to a rule or to a topic's policy and no template is called unless
\* the running call has passed validation, and what is used then is a real
\* bus and a real topic; a statement is added only when the rule it names
\* exists; the template function is called only when the statement naming
\* the instance's rule is on the topic; the target is attached only after the
\* template function has returned.
C15_StepOrder ==
    [][/\ (pc' # pc /\ pc # "deployed" /\ pc' # "deployed") =>
             <<pc, pc'>> \in StepOrder \cup StepEnd
       /\ (rules' # rules \/ policy' # policy
             \/ \E id \in DOMAIN calls : calls'[id] # calls[id]) =>
            /\ cur.id \in DOMAIN config
            /\ ValidationErrors(cur.props) = <<>>
            /\ cur.props.topic \in Topics
            /\ cur.props.eventBus \in EventBuses
       /\ \A t \in Topics : \A id \in Ids :
            PositionsNaming(policy'[t], id) # PositionsNaming(policy[t], id) =>
               /\ id = cur.id
               /\ id \in DOMAIN rules
               /\ calls[id] = <<>>
       /\ \A id \in DOMAIN calls :
            calls'[id] # calls[id] =>
               /\ id = cur.id
               /\ id \in DOMAIN rules
               /\ PositionsNaming(policy[cur.props.topic], id) # {}
               /\ rules[id].targets = <<>>
       /\ \A id \in DOMAIN rules :
            rules'[id] # rules[id] =>
               /\ id = cur.id
               /\ Len(calls[id]) = 1
               /\ id \in DOMAIN ret]_vars

\* C15 witness: a call stands before its last step with the rule created,
\* the statement added and the template function called, in a stack where an
\* earlier call stopped at validation.
C15_Witness ==
    /\ pc = "target"
    /\ cur.id \in DOMAIN rules
    /\ PositionsNaming(policy[cur.props.topic], cur.id) # {}
    /\ Len(calls[cur.id]) = 1
    /\ rules[cur.id].targets = <<>>
    /\ \E id \in children : FailedValidation(id)

(* ------------------------------------------------------------------ C16 *)

\* C16 (as claimed): in every state a constructor call leaves behind,
\* completed or failed, a statement naming an instance's rule is on a topic
\* exactly when that rule is in the output, and the rule then has its target
\* attached.
C16_GrantIffRuleWithTarget ==
    pc \in {"idle", "deployed"} =>
        \A id \in children :
            /\ (\E t \in Topics : PositionsNaming(policy[t], id) # {})
                  <=> id \in DOMAIN rules
            /\ id \in DOMAIN rules => Len(rules[id].targets) = 1

(* ------------------------------------------------------------------ C17 *)

\* The values a caller can pass for the four properties.
PropValues == EventBuses \cup {DefaultBus} \cup Topics \cup EventTypeNames \cup MessageTemplates

\* C17: a constructor call that fails validation never calls messageTemplate,
\* neither in the failing step nor afterwards, and the failing step uses
\* eventBus, topic and eventTypes for nothing but the checks: no rule is put
\* on a bus, no topic's policy changes, no configuration is stored, and the
\* error message carries none of the values passed.
C17_ValidationFailureTouchesNothing ==
    /\ [](\A id \in children :
            FailedValidation(id) =>
                /\ calls[id] = <<>>
                /\ id \notin DOMAIN ret
                /\ id \notin DOMAIN config)
    /\ [][FailingValidation =>
            /\ calls' = calls
            /\ ret' = ret
            /\ config' = config
            /\ \A t \in Topics : policy'[t] = policy[t]
            /\ DOMAIN rules' = DOMAIN rules
            /\ RangeOf(LastThrown'.message) \cap PropValues = {}]_vars

\* C17 witness: a call whose only missing property was eventBus, so that a
\* topic, event types and a template function were passed, has failed, and a
\* later call has completed.
C17_Witness ==
    /\ \E i \in 1..Len(thrown) :
         /\ thrown[i].kind = "validation"
         /\ ViolationLines(thrown[i].message) = <<(<<"  - ", "eventBus", " is required">>)>>
         /\ calls[thrown[i].id] = <<>>
    /\ \E id \in DOMAIN status : status[id] = "done"

(* ------------------------------------------------------------------ C18 *)

\* C18: the construct is a child of the scope when validation runs, and it
\* stays one when validation fails.  Every later call with that id in the
\* scope, whatever its configuration, ends in super(scope, id) with the
\* scope's duplicate-name error: it never reaches validation, and nothing is
\* ever declared under that id.
C18_FailedIdStaysOccupied ==
    /\ [](pc = "validate" => cur.id \in children)
    /\ [](\A id \in Ids :
            FailedValidation(id) =>
                /\ id \in children
                /\ cur.id # id
                /\ id \notin DOMAIN rules)
    /\ [][\A id \in Ids :
            (FailedValidation(id) /\ Len(thrown') > Len(thrown)
               /\ LastThrown'.id = id) =>
                /\ LastThrown'.kind = "duplicate"
                /\ LastThrown'.message =
                     <<"There is already a Construct with name '", id, "' in ", "TestStack">>
                /\ LastThrown'.attempt = attempts'
                /\ attempts' = attempts + 1
                /\ children' = children
                /\ status'[id] = "failed"]_vars

\* C18 witness: a call failed validation and the next call with the same id
\* was refused by the scope.
C18_Witness ==
    \E i \in 1..Len(thrown) : \E j \in 1..Len(thrown) :
        /\ i < j
        /\ thrown[i].id = thrown[j].id
        /\ thrown[i].kind = "validation"
        /\ thrown[j].kind = "duplicate"
        /\ thrown[i].id \in children
        /\ thrown[i].id \notin DOMAIN config

(* ------------------------------------------------------------------ C19 *)

\* The finished instances composed against topic t.
ComposedOn(t) == {id \in DOMAIN status : status[id] = "done" /\ config[id].topic = t}

\* The rules named by the conditions of a statement.
RulesNamedBy(stmt) == {c.value : c \in stmt.conditions}

\* C19 (as claimed): when the instances composed against a topic are all
\* valid and finished, N of them, the topic's rendered policy has exactly N
\* statements, each naming one rule in its source-ARN condition, the N rules
\* named being the N instances' own and pairwise distinct.
C19_OneStatementPerInstanceOnSharedTopic ==
    (pc \in {"idle", "deployed"} /\ \A id \in DOMAIN rules : status[id] = "done") =>
        \A t \in Topics :
            LET stmts == Rendered(t) IN
            /\ Len(stmts) = Cardinality(ComposedOn(t))
            /\ \A i \in 1..Len(stmts) : Cardinality(RulesNamedBy(stmts[i])) = 1
            /\ \A i \in 1..Len(stmts) : \A j \in 1..Len(stmts) :
                 i # j => RulesNamedBy(stmts[i]) # RulesNamedBy(stmts[j])
            /\ UNION {RulesNamedBy(stmts[i]) : i \in 1..Len(stmts)} =
                 {<<"arn", id, "StripeEventRule">> : id \in ComposedOn(t)}

====
